---------------------------- MODULE Spec2Model ----------------------------
(***************************************************************************)
(* Model of podcast_transcriber.py: the extractive summariser              *)
(* (clean_text, get_sentences, score_sentence, summarize_text) and the     *)
(* fail-stop pipeline of main around it.                                   *)
(*                                                                         *)
(* A Python str is a sequence of code points (integers), so that           *)
(* str.lower(), the regular expressions' character classes and the         *)
(* default string ordering are computed, not assumed.                      *)
(***************************************************************************)
EXTENDS Integers, Sequences, FiniteSets, TLC

VARIABLES pc, num_sentences, calls, transcript, st, summary, summary_file, ret

vars == <<pc, num_sentences, calls, transcript, st, summary, summary_file, ret>>

(***************************************************************************)
(* Characters.                                                             *)
(***************************************************************************)
Ord(c) ==
    CASE c = "\n" -> 10 [] c = " " -> 32 [] c = "!" -> 33 [] c = "(" -> 40
      [] c = ")" -> 41 [] c = "." -> 46 [] c = "0" -> 48 [] c = "1" -> 49
      [] c = "2" -> 50 [] c = "3" -> 51 [] c = "4" -> 52 [] c = ":" -> 58
      [] c = "?" -> 63 [] c = "A" -> 65 [] c = "U" -> 85 [] c = "[" -> 91
      [] c = "]" -> 93 [] c = "a" -> 97 [] c = "b" -> 98 [] c = "c" -> 99
      [] c = "e" -> 101 [] c = "h" -> 104 [] c = "i" -> 105 [] c = "k" -> 107
      [] c = "l" -> 108 [] c = "m" -> 109 [] c = "r" -> 114 [] c = "u" -> 117
      [] c = "x" -> 120

\* The str whose characters are the one-character strings of cs.
Str(cs) == [i \in 1..Len(cs) |-> Ord(cs[i])]

\* str.isspace / the regular expressions' \s, over ASCII.
IsSpace(c) == c \in {9, 10, 11, 12, 13, 32}

\* The regular expressions' \d, over ASCII.
IsDigit(c) == c \in 48..57

\* The regular expressions' \w, over ASCII.
IsWordChar(c) == c \in (48..57) \cup (65..90) \cup (97..122) \cup {95}

\* The class [.!?] of get_sentences.
IsTerminator(c) == c \in {Ord("."), Ord("!"), Ord("?")}

\* str.lower, over ASCII.
LowerChar(c) == IF c \in 65..90 THEN c + 32 ELSE c

Lower(s) == [i \in 1..Len(s) |-> LowerChar(s[i])]

SetMin(S) == CHOOSE x \in S : \A y \in S : x <= y

SetMax(S) == CHOOSE x \in S : \A y \in S : x >= y

\* str.strip()
Strip(s) ==
    LET keep == {i \in 1..Len(s) : ~IsSpace(s[i])}
    IN  IF keep = {} THEN <<>> ELSE SubSeq(s, SetMin(keep), SetMax(keep))

\* str.split(): the maximal runs of non-whitespace characters.
RECURSIVE SplitWords(_)
SplitWords(s) ==
    LET keep == {i \in 1..Len(s) : ~IsSpace(s[i])}
    IN  IF keep = {} THEN <<>>
        ELSE LET b == SetMin(keep)
                 stop == {i \in b..Len(s) : IsSpace(s[i])}
                 e == IF stop = {} THEN Len(s) ELSE SetMin(stop) - 1
             IN  <<SubSeq(s, b, e)>> \o SplitWords(SubSeq(s, e + 1, Len(s)))

\* text.split('\n')
RECURSIVE SplitLines(_)
SplitLines(s) ==
    LET nl == {i \in 1..Len(s) : s[i] = Ord("\n")}
    IN  IF nl = {} THEN <<s>>
        ELSE LET i == SetMin(nl)
             IN  <<SubSeq(s, 1, i - 1)>> \o SplitLines(SubSeq(s, i + 1, Len(s)))

\* sep.join(parts)
RECURSIVE Join(_, _)
Join(sep, parts) ==
    IF parts = <<>> THEN <<>>
    ELSE IF Len(parts) = 1 THEN parts[1]
    ELSE parts[1] \o sep \o Join(sep, Tail(parts))

(***************************************************************************)
(* clean_text                                                              *)
(***************************************************************************)
\* re.match(r'^\d+$|^\d{2}:\d{2}:', line) for a stripped line.
IsIndexOrTimestamp(line) ==
    \/ Len(line) >= 1 /\ \A i \in 1..Len(line) : IsDigit(line[i])
    \/ /\ Len(line) >= 6
       /\ IsDigit(line[1]) /\ IsDigit(line[2]) /\ line[3] = Ord(":")
       /\ IsDigit(line[4]) /\ IsDigit(line[5]) /\ line[6] = Ord(":")

\* The loop of clean_text: the stripped lines that are no index or timestamp.
RECURSIVE KeepContent(_)
KeepContent(lines) ==
    IF lines = <<>> THEN <<>>
    ELSE LET l == Strip(Head(lines))
         IN  (IF IsIndexOrTimestamp(l) THEN <<>> ELSE <<l>>)
                 \o KeepContent(Tail(lines))

\* re.sub(open .*? close, '', s): leftmost, non-greedy, '.' matches no newline.
RECURSIVE RemoveSpans(_, _, _)
RemoveSpans(s, open, close) ==
    IF s = <<>> THEN <<>>
    ELSE LET ends == {j \in 2..Len(s) : s[j] = close}
             j == SetMin(ends)
         IN  IF /\ s[1] = open
                /\ ends # {}
                /\ \A m \in 2..(j - 1) : s[m] # Ord("\n")
             THEN RemoveSpans(SubSeq(s, j + 1, Len(s)), open, close)
             ELSE <<s[1]>> \o RemoveSpans(Tail(s), open, close)

\* The alternatives of the filler pattern, in the pattern's order.
FILLERS ==
    << Str(<<"u", "m">>), Str(<<"u", "h">>), Str(<<"a", "h">>),
       Str(<<"e", "r">>), Str(<<"l", "i", "k", "e">>) >>

\* \b before position p of s (p in 1..Len(s)+1).
WordBoundary(s, p) ==
    LET before == p >= 2 /\ IsWordChar(s[p - 1])
        after == p <= Len(s) /\ IsWordChar(s[p])
    IN  before # after

\* Whether alternative f of the filler pattern matches s at position i.
FillerAt(s, i, f) ==
    /\ i + Len(f) - 1 <= Len(s)
    /\ SubSeq(s, i, i + Len(f) - 1) = f
    /\ WordBoundary(s, i + Len(f))

\* Length of the match of \b(um|uh|ah|er|like)\b at position i, 0 if none.
FillerMatchLen(s, i) ==
    LET hits == {n \in 1..Len(FILLERS) : FillerAt(s, i, FILLERS[n])}
    IN  IF WordBoundary(s, i) /\ hits # {} THEN Len(FILLERS[SetMin(hits)]) ELSE 0

\* re.sub(r'\b(um|uh|ah|er|like)\b', '', s), scanning s from position i.
RECURSIVE RemoveFillersFrom(_, _)
RemoveFillersFrom(s, i) ==
    IF i > Len(s) THEN <<>>
    ELSE LET n == FillerMatchLen(s, i)
         IN  IF n > 0 THEN RemoveFillersFrom(s, i + n)
             ELSE <<s[i]>> \o RemoveFillersFrom(s, i + 1)

RemoveFillers(s) == RemoveFillersFrom(s, 1)

\* re.sub(r'\s+', ' ', s)
RECURSIVE CollapseSpaces(_)
CollapseSpaces(s) ==
    IF s = <<>> THEN <<>>
    ELSE IF IsSpace(s[1])
         THEN LET rest == {i \in 2..Len(s) : ~IsSpace(s[i])}
              IN  <<Ord(" ")>> \o
                     (IF rest = {} THEN <<>>
                      ELSE CollapseSpaces(SubSeq(s, SetMin(rest), Len(s))))
         ELSE <<s[1]>> \o CollapseSpaces(Tail(s))

\* Mutant of CleanJoined: the final strip() is forgotten.
CleanJoinedNoStrip(joined) ==
    CollapseSpaces(RemoveFillers(
        RemoveSpans(RemoveSpans(joined, Ord("["), Ord("]")), Ord("("), Ord(")"))))

\* The asides, then the fillers, then the whitespace, of the joined lines.
CleanJoined(joined) ==
    Strip(CollapseSpaces(RemoveFillers(
        RemoveSpans(RemoveSpans(joined, Ord("["), Ord("]")), Ord("("), Ord(")")))))

clean_text(text) == CleanJoined(Join(<<Ord(" ")>>, KeepContent(SplitLines(text))))

(***************************************************************************)
(* get_sentences                                                           *)
(***************************************************************************)
\* Length of the match of [.!?]+\s+ at position i of s, 0 if none.
SeparatorMatchLen(s, i) ==
    LET notTerm == {j \in i..Len(s) : ~IsTerminator(s[j])}
        e == IF notTerm = {} THEN Len(s) + 1 ELSE SetMin(notTerm)
        notSpace == {j \in e..Len(s) : ~IsSpace(s[j])}
        e2 == IF notSpace = {} THEN Len(s) + 1 ELSE SetMin(notSpace)
    IN  IF e > i /\ e2 > e THEN e2 - i ELSE 0

\* re.split(r'[.!?]+\s+', s): the pieces from position start on, scanning at i.
RECURSIVE SplitSentencesFrom(_, _, _)
SplitSentencesFrom(s, start, i) ==
    IF i > Len(s) THEN <<SubSeq(s, start, Len(s))>>
    ELSE LET n == SeparatorMatchLen(s, i)
         IN  IF n > 0
             THEN <<SubSeq(s, start, i - 1)>> \o SplitSentencesFrom(s, i + n, i + n)
             ELSE SplitSentencesFrom(s, start, i + 1)

\* Mutant of LongStripped: the length filter is forgotten.
KeepAllStripped(pieces) == [i \in 1..Len(pieces) |-> Strip(pieces[i])]

\* The comprehension of get_sentences: filter on the piece, then strip it.
RECURSIVE LongStripped(_)
LongStripped(pieces) ==
    IF pieces = <<>> THEN <<>>
    ELSE (IF Len(SplitWords(Head(pieces))) > 5 THEN <<Strip(Head(pieces))>> ELSE <<>>)
             \o LongStripped(Tail(pieces))

get_sentences(text) == LongStripped(SplitSentencesFrom(text, 1, 1))

(***************************************************************************)
(* score_sentence and summarize_text                                       *)
(***************************************************************************)
Range(f) == {f[i] : i \in DOMAIN f}

\* collections.Counter(words)
Counter(words) ==
    [w \in Range(words) |-> Cardinality({i \in 1..Len(words) : words[i] = w})]

\* word_freq.get(word, 0)
FreqGet(freq, w) == IF w \in DOMAIN freq THEN freq[w] ELSE 0

RECURSIVE SumFreq(_, _)
SumFreq(words, freq) ==
    IF words = <<>> THEN 0
    ELSE FreqGet(freq, Head(words)) + SumFreq(Tail(words), freq)

\* score_sentence: the quotient sum / len(words), kept as the exact fraction
\* (the quotients of the small integers met here are distinct floats exactly
\* when they are distinct fractions); den = 0 is the ZeroDivisionError.
score_sentence(sentence, freq) ==
    LET words == SplitWords(Lower(sentence))
    IN  [num |-> SumFreq(words, freq), den |-> Len(words)]

ScoreLess(a, b) == a.num * b.den < b.num * a.den

ScoreEq(a, b) == a.num * b.den = b.num * a.den

\* Python's str < str: lexicographic over code points.
StrLess(a, b) ==
    \E i \in 1..Len(b) :
        /\ \A j \in 1..(i - 1) : j <= Len(a) /\ a[j] = b[j]
        /\ (i > Len(a) \/ a[i] < b[i])

\* Python's tuple < tuple on (score, sentence).
TupleLess(p, q) ==
    \/ ScoreLess(p[1], q[1])
    \/ ScoreEq(p[1], q[1]) /\ StrLess(p[2], q[2])

\* Mutant of SortedReverse: reverse=True is forgotten.
RECURSIVE InsertAscending(_, _)
InsertAscending(x, sorted) ==
    IF sorted = <<>> THEN <<x>>
    ELSE IF TupleLess(x, Head(sorted)) THEN <<x>> \o sorted
    ELSE <<Head(sorted)>> \o InsertAscending(x, Tail(sorted))

RECURSIVE SortedAscending(_)
SortedAscending(pairs) ==
    IF pairs = <<>> THEN <<>>
    ELSE InsertAscending(pairs[Len(pairs)],
                         SortedAscending(SubSeq(pairs, 1, Len(pairs) - 1)))

RECURSIVE InsertReverse(_, _)
InsertReverse(x, sorted) ==
    IF sorted = <<>> THEN <<x>>
    ELSE IF TupleLess(Head(sorted), x) THEN <<x>> \o sorted
    ELSE <<Head(sorted)>> \o InsertReverse(x, Tail(sorted))

\* sorted(pairs, reverse=True): descending, equal elements in their order.
RECURSIVE SortedReverse(_)
SortedReverse(pairs) ==
    IF pairs = <<>> THEN <<>>
    ELSE InsertReverse(pairs[Len(pairs)],
                       SortedReverse(SubSeq(pairs, 1, Len(pairs) - 1)))

\* Mutant of SliceTo: the slice stops one element early.
SliceOneShort(seq, n) ==
    SubSeq(seq, 1, IF n - 1 < Len(seq) THEN n - 1 ELSE Len(seq))

\* seq[:n]
SliceTo(seq, n) ==
    IF n >= 0 THEN SubSeq(seq, 1, IF n < Len(seq) THEN n ELSE Len(seq))
    ELSE SubSeq(seq, 1, IF Len(seq) + n > 0 THEN Len(seq) + n ELSE 0)

\* ". ".join(s[1] for s in top) + "."
JoinSummary(top) ==
    Join(Str(<<".", " ">>), [i \in 1..Len(top) |-> top[i][2]]) \o Str(<<".">>)

\* The locals summarize_text has bound when it leaves, whether it leaves by
\* an exception (raised), and the string it returns otherwise.
Leave(names, c, ss, wf, sc, top, exc, res) ==
    [assigned |-> names, cleaned |-> c, sentences |-> ss, word_freq |-> wf,
     scored |-> sc, top_sentences |-> top, raised |-> exc, result |-> res]

\* Lines 130 and 133: sort, slice, join.
SummarizeTop(c, ss, wf, sc, top) ==
    Leave({"cleaned", "sentences", "words", "word_freq", "scored", "top_sentences"},
          c, ss, wf, sc, top, FALSE, JoinSummary(top))

\* Line 129: score every sentence; a sentence of no words raises.
SummarizeScored(c, ss, wf, sc, num) ==
    IF \E i \in 1..Len(sc) : sc[i][1].den = 0
    THEN Leave({"cleaned", "sentences", "words", "word_freq"},
               c, ss, wf, <<>>, <<>>, TRUE, <<>>)
    ELSE SummarizeTop(c, ss, wf, sc, SliceTo(SortedReverse(sc), num))

ScoreAll(ss, wf) == [i \in 1..Len(ss) |-> <<score_sentence(ss[i], wf), ss[i]>>]

\* Lines 125-126: the frequencies of the lowercased words of the cleaned text.
SummarizeCounted(c, ss, wf, num) == SummarizeScored(c, ss, wf, ScoreAll(ss, wf), num)

\* Mutant of SummarizeSentences: the early return on no sentence is forgotten.
SummarizeUnguarded(c, ss, num) ==
    SummarizeCounted(c, ss, Counter(SplitWords(Lower(c))), num)

\* Lines 121-122: no sentence, empty summary.
SummarizeSentences(c, ss, num) ==
    IF ss = <<>>
    THEN Leave({"cleaned", "sentences"}, c, ss, <<>>, <<>>, <<>>, FALSE, <<>>)
    ELSE SummarizeCounted(c, ss, Counter(SplitWords(Lower(c))), num)

SummarizeCleaned(c, num) == SummarizeSentences(c, get_sentences(c), num)

summarize_text(text, num) == SummarizeCleaned(clean_text(text), num)

(***************************************************************************)
(* The inputs: argument values and transcripts.                            *)
(***************************************************************************)
\* Largest --sentences value tried, and largest magnitude of a negative one.
MaxSentences == 2

MaxNegSentences == 1

\* Largest number of pieces a transcript is put together from.
MaxPieces == 2

\* Pieces of transcript text: sentences of six words with a terminator (one of
\* them followed by a short fragment) and without, fillers in both letter
\* cases, parenthetical and bracketed asides, a caption index, a caption
\* timestamp, a line break and a bare terminator.
Pieces ==
    << Str(<<"a"," ","b"," ","a"," ","b"," ","a"," ","b","."," ">>),
       Str(<<"b"," ","a"," ","b"," ","a"," ","b"," ","a","!"," ","h","i","."," ">>),
       Str(<<"A"," ","a"," ","a"," ","a"," ","a"," ","c","?"," ">>),
       Str(<<"a"," ","b"," ","c"," ","a"," ","b"," ","c">>),
       Str(<<"U","m"," ">>),
       Str(<<"l","i","k","e"," ">>),
       Str(<<"(","x",")"," ">>),
       Str(<<"[","u","m","]">>),
       Str(<<"1","2">>),
       Str(<<"1","2",":","3","4",":"," ">>),
       Str(<<"\n">>),
       Str(<<".">>) >>

RECURSIVE Concat(_)
Concat(parts) == IF parts = <<>> THEN <<>> ELSE Head(parts) \o Concat(Tail(parts))

\* The transcripts the speech-to-text engine may produce.
Transcripts ==
    UNION { {Concat([i \in 1..n |-> Pieces[ix[i]]]) :
                ix \in [1..n -> 1..Len(Pieces)]} : n \in 0..MaxPieces }

(***************************************************************************)
(* main                                                                    *)
(***************************************************************************)
None == [kind |-> "None"]

Unbound == [kind |-> "unbound"]

Val(v) == [kind |-> "value", val |-> v]

\* Mutant of Truthy: the test is "is not None".
IsNotNone(x) == x.kind = "value"

\* Python truthiness of a value that is None or a str.
Truthy(x) == x.kind = "value" /\ x.val # <<>>

\* summarize_text not entered yet: no local bound.
NotEntered == Leave({}, <<>>, <<>>, <<>>, <<>>, <<>>, FALSE, <<>>)

Init ==
    /\ pc = "download"
    /\ num_sentences \in (0 - MaxNegSentences)..MaxSentences
    /\ calls = <<>>
    /\ transcript = Unbound
    /\ st = NotEntered
    /\ summary = Unbound
    /\ summary_file = Unbound
    /\ ret = Unbound

\* Mutant of DownloadPodcast: main ignores what download_podcast returns.
DownloadPodcastUnchecked ==
    /\ pc = "download"
    /\ \E outcome \in {"True", "False", "raise"} :
          /\ calls' = Append(calls, <<"download_podcast", outcome>>)
          /\ pc' = IF outcome = "raise" THEN "raised" ELSE "transcribe"
    /\ UNCHANGED <<num_sentences, transcript, st, summary, summary_file, ret>>

\* calls: every call main has made, with how it came back.
\* Step 1 of main: download_podcast returns True or False, or raises
\* (os.makedirs is outside its try block).
DownloadPodcast ==
    /\ pc = "download"
    /\ \E outcome \in {"True", "False", "raise"} :
          /\ calls' = Append(calls, <<"download_podcast", outcome>>)
          /\ pc' = CASE outcome = "True" -> "transcribe"
                     [] outcome = "False" -> "returned"
                     [] outcome = "raise" -> "raised"
          /\ ret' = IF outcome = "False" THEN Val(1) ELSE ret
    /\ UNCHANGED <<num_sentences, transcript, st, summary, summary_file>>

\* Step 2 of main: transcribe_audio writes the transcript and returns its
\* path, or returns None, or raises (the installation check and the import
\* are outside its try block).
TranscribeAudio ==
    /\ pc = "transcribe"
    /\ \/ \E text \in Transcripts :
             /\ calls' = Append(calls, <<"transcribe_audio", "path">>)
             /\ transcript' = Val(text)
             /\ pc' = "summarize"
             /\ ret' = ret
       \/ /\ calls' = Append(calls, <<"transcribe_audio", "None">>)
          /\ pc' = "returned"
          /\ ret' = Val(1)
          /\ transcript' = transcript
       \/ /\ calls' = Append(calls, <<"transcribe_audio", "raise">>)
          /\ pc' = "raised"
          /\ UNCHANGED <<ret, transcript>>
    /\ UNCHANGED <<num_sentences, st, summary, summary_file>>

\* How a returned value that is None or a str is logged.
Outcome(x) == IF x = None THEN "None" ELSE IF x.val = <<>> THEN "empty" ELSE "summary"

\* What summarize_transcript returns and writes, given how its file
\* operations go and how summarize_text left.
Returned(io, left) ==
    IF io = "ok" /\ ~left.raised THEN Val(left.result) ELSE None

\* Step 3 of main: summarize_transcript reads the transcript, runs
\* summarize_text, writes the summary and returns it; any exception on the
\* way makes it return None. main then returns 1 on a falsy summary.
SummarizeTranscript ==
    /\ pc = "summarize"
    /\ \E io \in {"ok", "read_fails", "write_fails"} :
          /\ st' = IF io = "read_fails" THEN st
                   ELSE summarize_text(transcript.val, num_sentences)
          /\ summary' = Returned(io, st')
          /\ summary_file' = IF summary' = None THEN summary_file ELSE summary'
    /\ calls' = Append(calls, <<"summarize_transcript", Outcome(summary')>>)
    /\ pc' = IF Truthy(summary') THEN "save_metadata" ELSE "returned"
    /\ ret' = IF Truthy(summary') THEN ret ELSE Val(1)
    /\ UNCHANGED <<num_sentences, transcript>>

\* Step 4 of main: save_metadata (no try block: it may raise), then the
\* prints and return 0.
SaveMetadata ==
    /\ pc = "save_metadata"
    /\ \/ /\ calls' = Append(calls, <<"save_metadata", "ok">>)
          /\ pc' = "returned"
          /\ ret' = Val(0)
       \/ /\ calls' = Append(calls, <<"save_metadata", "raise">>)
          /\ pc' = "raised"
          /\ ret' = ret
    /\ UNCHANGED <<num_sentences, transcript, st, summary, summary_file>>

Next == DownloadPodcast \/ TranscribeAudio \/ SummarizeTranscript \/ SaveMetadata

Spec == Init /\ [][Next]_vars

(***************************************************************************)
(* The claims.                                                             *)
(***************************************************************************)
\* summarize_text has run on the transcript.
Ran == "cleaned" \in st.assigned

TopTexts == [i \in 1..Len(st.top_sentences) |-> st.top_sentences[i][2]]

Count(x, seq) == Cardinality({i \in 1..Len(seq) : seq[i] = x})

\* The mean frequency of a sentence's lowercased words, as a fraction.
MeanFreq(sentence) == score_sentence(sentence, st.word_freq)

\* (score, text) of x is strictly greater than that of y.
PairGreater(x, y) ==
    \/ ScoreLess(MeanFreq(y), MeanFreq(x))
    \/ ScoreEq(MeanFreq(x), MeanFreq(y)) /\ StrLess(y, x)

\* C1: whenever segment(normalize(text)) is empty, summarize returns "" for
\* every maxSentences (negative, zero, positive), having bound nothing but
\* the cleaned text and the sentence list: no frequencies, no scores.
C1_EmptySummaryWhenNoSentence ==
    (Ran /\ get_sentences(st.cleaned) = <<>>)
        => /\ ~st.raised
           /\ st.result = <<>>
           /\ st.assigned = {"cleaned", "sentences"}
           /\ st.word_freq = <<>> /\ st.scored = <<>>

C1_Witness ==
    /\ Ran /\ st.sentences = <<>> /\ transcript.val # <<>>
    /\ num_sentences < 0 /\ summary = Val(<<>>)

\* C2 (as claimed): with at least one surviving sentence and maxSentences <= 0,
\* summarize selects no sentence and returns exactly ".".
C2_NonPositiveSelectsNothing ==
    (Ran /\ st.sentences # <<>> /\ num_sentences <= 0)
        => st.top_sentences = <<>> /\ st.result = Str(<<".">>)

\* C3: the selected sentences stand in descending order of (score, text): a
\* higher score first, and at equal score the lexicographically greater
\* sentence first; the summary joins them in that order.
C3_DescendingOrder ==
    Ran => /\ \A i, j \in 1..Len(TopTexts) :
                i < j => ~PairGreater(TopTexts[j], TopTexts[i])
           /\ \A i \in 1..Len(TopTexts) :
                ScoreEq(st.top_sentences[i][1], MeanFreq(TopTexts[i]))
           /\ (st.sentences # <<>> =>
                 st.result = Join(Str(<<".", " ">>), TopTexts) \o Str(<<".">>))

C3_Witness ==
    /\ Len(TopTexts) >= 2
    /\ ScoreEq(MeanFreq(TopTexts[1]), MeanFreq(TopTexts[2]))
    /\ StrLess(TopTexts[2], TopTexts[1])

\* C4: with n >= 1 surviving sentences and maxSentences >= 1, summarize
\* selects exactly min(maxSentences, n) sentences, each a sentence of segment
\* (copies counted separately), and no sentence left out has a (score, text)
\* pair strictly greater than that of a selected one.
C4_TopK ==
    (Ran /\ st.sentences # <<>> /\ num_sentences >= 1)
        => /\ Len(TopTexts) = IF num_sentences < Len(st.sentences)
                              THEN num_sentences ELSE Len(st.sentences)
           /\ \A i \in 1..Len(TopTexts) :
                Count(TopTexts[i], TopTexts) <= Count(TopTexts[i], st.sentences)
           /\ \A a \in 1..Len(st.sentences) :
                Count(st.sentences[a], TopTexts) < Count(st.sentences[a], st.sentences)
                    => \A b \in 1..Len(TopTexts) :
                          ~PairGreater(st.sentences[a], TopTexts[b])

C4_Witness ==
    /\ Ran /\ Len(st.sentences) = 2 /\ num_sentences = 1 /\ Len(TopTexts) = 1
    /\ \E a \in 1..2 : PairGreater(TopTexts[1], st.sentences[a])

\* A filler word stands in s as a whole word, in some letter case.
HasFillerAnyCase(s) ==
    \E i \in 1..Len(s), n \in 1..Len(FILLERS) :
        /\ WordBoundary(s, i)
        /\ i + Len(FILLERS[n]) - 1 <= Len(s)
        /\ Lower(SubSeq(s, i, i + Len(FILLERS[n]) - 1)) = FILLERS[n]
        /\ WordBoundary(s, i + Len(FILLERS[n]))

\* C5 (as claimed): the normalized text holds no filler word as a whole word
\* in any letter case, and the frequency table has no filler word as a key.
C5_NoFillerInAnyCase ==
    Ran => /\ ~HasFillerAnyCase(st.cleaned)
           /\ \A w \in DOMAIN st.word_freq : w \notin Range(FILLERS)

C7_ScorerNeverDividesByZero ==
    Ran => /\ ~st.raised
           /\ \A i \in 1..Len(st.sentences) : Len(SplitWords(st.sentences[i])) > 5
           /\ \A i \in 1..Len(st.scored) :
                /\ st.scored[i][2] = st.sentences[i]
                /\ st.scored[i][1].den = Len(SplitWords(st.sentences[i]))
                /\ st.scored[i][1].den > 5

C7_Witness == Ran /\ Len(st.scored) >= 2 /\ ~st.raised

\* C8 (as claimed): no sentence of segment ends with '.', '!' or '?', so the
\* summary ends with exactly one '.' and nowhere holds two terminators in a row.
C8_NoTerminatorKept ==
    Ran => /\ \A i \in 1..Len(st.sentences) :
                ~IsTerminator(st.sentences[i][Len(st.sentences[i])])
           /\ \A p \in 1..(Len(st.result) - 1) :
                ~(IsTerminator(st.result[p]) /\ IsTerminator(st.result[p + 1]))

\* C9: main calls download, transcribe, summarize, save-metadata in this
\* order, each at most once and each only after every earlier one reported
\* success; it returns 0 only after save_metadata was called, and every
\* earlier exit returns 1.
C9_FailStopOrder ==
    LET order == <<"download_podcast", "transcribe_audio",
                   "summarize_transcript", "save_metadata">>
    IN  /\ Len(calls) <= 4
        /\ \A i \in 1..Len(calls) : calls[i][1] = order[i]
        /\ \A i \in 1..(Len(calls) - 1) : calls[i][2] \in {"True", "path", "summary"}
        /\ (ret = Val(0) => pc = "returned" /\ Len(calls) = 4)
        /\ (pc = "returned" /\ Len(calls) < 4 => ret = Val(1))
        /\ (pc # "returned" => ret = Unbound)

C9_Witness == pc = "returned" /\ ret = Val(0) /\ Len(calls) = 4

\* C10: an empty summary is written to the summary file and returned as "",
\* and main then returns 1 without calling save_metadata, as it does when
\* summarize_transcript returns None.
C10_EmptySummaryIsFailure ==
    /\ (Len(calls) >= 3 /\ summary = Val(<<>>))
          => /\ summary_file = Val(<<>>)
             /\ pc = "returned" /\ ret = Val(1) /\ Len(calls) = 3
    /\ (Len(calls) >= 3 /\ summary = None)
          => pc = "returned" /\ ret = Val(1) /\ Len(calls) = 3

C10_Witness ==
    /\ summary = Val(<<>>) /\ summary_file = Val(<<>>)
    /\ transcript.val # <<>> /\ st.sentences = <<>>
    /\ pc = "returned" /\ ret = Val(1)

=============================================================================
